---------------------------- MODULE Spec2Model ----------------------------
(***************************************************************************)
(* A model of tcp-proxy (src/src/main.rs): the accept loop, the            *)
(* per-connection pipeline handle_client, the one-shot HTTP header         *)
(* interceptor handle_http with the httparse request parser it calls, and  *)
(* the relay loop.  A byte is a one-character string (or a name such as    *)
(* "CR"); a byte string is a sequence of bytes.                            *)
(***************************************************************************)
EXTENDS Integers, Sequences, FiniteSets, TLC

VARIABLES opt, i, main_pc, env, conn

vars == <<opt, i, main_pc, env, conn>>

-----------------------------------------------------------------------------
(* Bytes and their classes, as httparse's lookup tables classify them.     *)

SP == "SP"
HT == "HT"
CR == "CR"
LF == "LF"
NUL == "NUL"

Letters == {"G", "E", "T", "H", "P", "O", "S", "X", "h", "o", "s", "t", "a", "b",
            "n", "e", "w", "x", "m", "p", "l", "d"}
Digits == <<"0", "1", "2", "3", "4", "5", "6", "7", "8", "9">>

\* httparse is_token / is_header_name_token: the tchar set
TokenBytes == Letters \cup {Digits[k] : k \in 1..10} \cup {".", "-"}
\* httparse is_uri_token: visible ASCII
UriBytes == TokenBytes \cup {"/", ":", "@"}
\* httparse is_header_value_token: HT, SP and visible ASCII
ValueBytes == UriBytes \cup {SP, HT}

Min(S) == CHOOSE x \in S : \A y \in S : x <= y

\* index of the first byte of b at or after p that is not in S; Len(b)+1 if none
RECURSIVE FirstNotIn(_, _, _)
FirstNotIn(b, p, S) ==
  IF p > Len(b) THEN Len(b) + 1
  ELSE IF b[p] \notin S THEN p
  ELSE FirstNotIn(b, p + 1, S)

\* str::to_ascii_lowercase on one byte
LowerByte(c) ==
  CASE c = "G" -> "g" [] c = "E" -> "e" [] c = "T" -> "t" [] c = "H" -> "h"
    [] c = "P" -> "p" [] c = "O" -> "o" [] c = "S" -> "s" [] c = "X" -> "x"
    [] OTHER -> c

to_ascii_lowercase(s) == [k \in 1..Len(s) |-> LowerByte(s[k])]

\* Display of an unsigned integer: its decimal digits
RECURSIVE Decimal(_)
Decimal(n) ==
  IF n < 10 THEN <<Digits[n + 1]>>
  ELSE Decimal(n \div 10) \o <<Digits[(n % 10) + 1]>>

HTTP1 == <<"H", "T", "T", "P", "/", "1", ".">>

-----------------------------------------------------------------------------
(* httparse::Request::parse, as called at main.rs:74.                      *)

Ok(p, x) == [st |-> "ok", p |-> p, x |-> x, e |-> ""]
Partial == [st |-> "Partial", p |-> 0, x |-> <<>>, e |-> ""]
Err(e) == [st |-> "Error", p |-> 0, x |-> <<>>, e |-> e]

\* skip_empty_lines: leading CRLF or LF before the request line are skipped
RECURSIVE skip_empty_lines(_, _)
skip_empty_lines(b, p) ==
  IF p > Len(b) THEN Partial
  ELSE IF b[p] = CR
       THEN IF p + 1 > Len(b) THEN Partial
            ELSE IF b[p + 1] = LF THEN skip_empty_lines(b, p + 2)
            ELSE Err("NewLine")
  ELSE IF b[p] = LF THEN skip_empty_lines(b, p + 1)
  ELSE Ok(p, <<>>)

\* parse_token: the method, a non-empty run of token bytes ended by one space
parse_token(b, p) ==
  IF p > Len(b) THEN Partial
  ELSE IF b[p] \notin TokenBytes THEN Err("Token")
  ELSE LET q == FirstNotIn(b, p + 1, TokenBytes)
       IN IF q > Len(b) THEN Partial
          ELSE IF b[q] = SP THEN Ok(q + 1, SubSeq(b, p, q - 1))
          ELSE Err("Token")

\* parse_uri: the path, a non-empty run of uri bytes ended by one space
parse_uri(b, p) ==
  IF p > Len(b) THEN Partial
  ELSE IF b[p] \notin UriBytes THEN Err("Token")
  ELSE LET q == FirstNotIn(b, p + 1, UriBytes)
       IN IF q > Len(b) THEN Partial
          ELSE IF b[q] = SP THEN Ok(q + 1, SubSeq(b, p, q - 1))
          ELSE Err("Token")

\* parse_version: "HTTP/1.0" or "HTTP/1.1"; with fewer than eight bytes left
\* the bytes present are compared with "HTTP/1." and the result is Partial
parse_version(b, p) ==
  LET avail == Len(b) - p + 1
  IN IF avail >= 8
     THEN LET eight == SubSeq(b, p, p + 7)
          IN IF eight = HTTP1 \o <<"0">> THEN Ok(p + 8, 0)
             ELSE IF eight = HTTP1 \o <<"1">> THEN Ok(p + 8, 1)
             ELSE Err("Version")
     ELSE IF \E k \in 1..avail : k <= 7 /\ b[p + k - 1] # HTTP1[k]
          THEN Err("Version")
          ELSE Partial

\* newline!: CRLF or a bare LF
newline(b, p) ==
  IF p > Len(b) THEN Partial
  ELSE IF b[p] = CR
       THEN IF p + 1 > Len(b) THEN Partial
            ELSE IF b[p + 1] = LF THEN Ok(p + 2, <<>>)
            ELSE Err("NewLine")
  ELSE IF b[p] = LF THEN Ok(p + 1, <<>>)
  ELSE Err("NewLine")

\* the end of a header value at index e: CRLF or LF; gives the next index
value_end(b, e) ==
  IF e > Len(b) THEN Partial
  ELSE IF b[e] = CR
       THEN IF e + 1 > Len(b) THEN Partial
            ELSE IF b[e + 1] = LF THEN Ok(e + 2, <<>>)
            ELSE Err("HeaderValue")
  ELSE IF b[e] = LF THEN Ok(e + 1, <<>>)
  ELSE Err("HeaderValue")

\* a header value loses its trailing spaces and tabs
RECURSIVE trim_trailing(_)
trim_trailing(v) ==
  IF v # <<>> /\ v[Len(v)] \in {SP, HT}
  THEN trim_trailing(SubSeq(v, 1, Len(v) - 1))
  ELSE v

Header(name, value) == [name |-> name, value |-> value]
EMPTY_HEADER == Header(<<>>, <<>>)

\* the start of a line of the header block at index p: the line that ends the
\* block (x is "end", p the index after it) or the first byte of a header name
header_start(b, p) ==
  IF p > Len(b) THEN Partial
  ELSE IF b[p] = CR
       THEN IF p + 1 > Len(b) THEN Partial
            ELSE IF b[p + 1] = LF THEN Ok(p + 2, "end")
            ELSE Err("NewLine")
  ELSE IF b[p] = LF THEN Ok(p + 1, "end")
  ELSE IF b[p] \notin TokenBytes THEN Err("HeaderName")
  ELSE Ok(p, "name")

\* one header line from index p: the name up to the colon, the whitespace
\* after it skipped, the value up to its line end; x is the header, p the
\* index after the line
parse_header(b, p) ==
  LET q == FirstNotIn(b, p, TokenBytes)
  IN IF q > Len(b) THEN Partial
     ELSE IF b[q] # ":" THEN Err("HeaderName")
     ELSE LET name == SubSeq(b, p, q - 1)
              v == FirstNotIn(b, q + 1, {SP, HT})
          IN IF v > Len(b) THEN Partial
             ELSE IF b[v] \in ValueBytes
                  THEN LET e == FirstNotIn(b, v, ValueBytes)
                           r == value_end(b, e)
                       IN IF r.st # "ok" THEN r
                          ELSE Ok(r.p, Header(name, trim_trailing(SubSeq(b, v, e - 1))))
                  ELSE LET r == value_end(b, v)
                       IN IF r.st # "ok" THEN r ELSE Ok(r.p, Header(name, <<>>))

\* what is at index p of the header block when full tells whether every slot
\* is taken: the end of the block (st is "end"), an error (TooManyHeaders for a header
\* that has no slot), an incomplete line, or a header
header_at(b, p, full) ==
  LET s == header_start(b, p)
  IN IF s.st # "ok" THEN s
     ELSE IF s.x = "end" THEN [s EXCEPT !.st = "end"]
     ELSE IF full THEN Err("TooManyHeaders")
     ELSE parse_header(b, p)

\* parse_headers_iter: hs are the headers filled so far, max the slots given,
\* h what is at the index the parser has come to.  x of the result is the
\* header list, p the index after the header block.
RECURSIVE parse_headers_iter(_, _, _, _)
parse_headers_iter(b, hs, max, h) ==
  IF h.st = "end" THEN Ok(h.p, hs)
  ELSE IF h.st # "ok" THEN h
  ELSE parse_headers_iter(b, Append(hs, h.x), max,
                          header_at(b, h.p, Len(hs) + 1 >= max))

Parsed(st, n, method, path, version, headers, e) ==
  [st |-> st, n |-> n, method |-> method, path |-> path, version |-> version,
   headers |-> headers, e |-> e]

NotComplete(r) == Parsed(r.st, 0, <<>>, <<>>, 0, <<>>, r.e)

\* Request::parse(buf) with max_headers header slots: Complete(n) with the
\* request line and the headers, Partial, or an error
RequestParse(buf, max_headers) ==
  LET s == skip_empty_lines(buf, 1)
  IN IF s.st # "ok" THEN NotComplete(s)
     ELSE LET m == parse_token(buf, s.p)
     IN IF m.st # "ok" THEN NotComplete(m)
     ELSE LET u == parse_uri(buf, m.p)
     IN IF u.st # "ok" THEN NotComplete(u)
     ELSE LET v == parse_version(buf, u.p)
     IN IF v.st # "ok" THEN NotComplete(v)
     ELSE LET l == newline(buf, v.p)
     IN IF l.st # "ok" THEN NotComplete(l)
     ELSE LET h == parse_headers_iter(buf, <<>>, max_headers,
                                      header_at(buf, l.p, 0 >= max_headers))
     IN IF h.st # "ok" THEN NotComplete(h)
     ELSE Parsed("Complete", h.p - 1, m.x, u.x, v.x, h.x, "")

-----------------------------------------------------------------------------
(* main.rs: RequestLine, RequestHeaders, parse_http_request_headers.       *)

RequestLine(request) ==
  [method |-> request.method, path |-> request.path, version |-> request.version]

\* the headers vector handed to the parser: max_headers slots, the parsed
\* headers first and EMPTY_HEADER in every slot the parser did not fill
HeaderSlots(request, max_headers) ==
  [k \in 1..max_headers |->
     IF k <= Len(request.headers) THEN request.headers[k] ELSE EMPTY_HEADER]

\* a RequestHeaders::new that keeps the slots the parser did not fill
KeepPadding(headers) == headers

RECURSIVE PopEmpty(_)
PopEmpty(headers) ==
  IF headers # <<>> /\ headers[Len(headers)].name = <<>>
  THEN PopEmpty(SubSeq(headers, 1, Len(headers) - 1))
  ELSE headers

RequestHeaders(request_line, headers) ==
  [request_line |-> request_line, headers |-> PopEmpty(headers)]

NoHeaders == RequestHeaders([method |-> <<>>, path |-> <<>>, version |-> 0], <<>>)

\* Ok(Some((n, headers))) is "Some", Ok(None) is "None", Err(e) is "Err"
RECURSIVE parse_http_request_headers(_, _)
parse_http_request_headers(buffer, max_headers) ==
  LET request == RequestParse(buffer, max_headers)
  IN IF request.st = "Complete"
     THEN [res |-> "Some", n |-> request.n,
           headers |-> RequestHeaders(RequestLine(request),
                                      HeaderSlots(request, max_headers)),
           e |-> ""]
     ELSE IF request.st = "Partial"
     THEN [res |-> "None", n |-> 0, headers |-> NoHeaders, e |-> ""]
     ELSE IF request.e = "TooManyHeaders"
     THEN parse_http_request_headers(buffer, max_headers * 2)
     ELSE [res |-> "Err", n |-> 0, headers |-> NoHeaders, e |-> request.e]

-----------------------------------------------------------------------------
(* handle_http's rewrite pass and reserialization (main.rs:113-139).       *)

\* a comparison that forgets to_ascii_lowercase
IsHostExact(header) == header.name = <<"H", "o", "s", "t">>

IsHost(header) == to_ascii_lowercase(header.name) = <<"h", "o", "s", "t">>

\* the for loop over headers.headers.iter_mut()
RewriteHeaders(headers, hostname) ==
  [k \in 1..Len(headers) |->
     IF IsHost(headers[k]) THEN Header(headers[k].name, hostname) ELSE headers[k]]

\* a rewrite pass that sets headers_changed whatever it found
HeadersChangedAlways(headers) == TRUE

HeadersChanged(headers) == \E k \in 1..Len(headers) : IsHost(headers[k])

\* a request line written without the carriage return
WriteRequestLineLF(request_line) ==
  request_line.method \o <<SP>> \o request_line.path \o <<SP>> \o HTTP1
    \o Decimal(request_line.version) \o <<LF>>

\* writeln!(.., "{method} {path} HTTP/1.{version}\r")
WriteRequestLine(request_line) ==
  request_line.method \o <<SP>> \o request_line.path \o <<SP>> \o HTTP1
    \o Decimal(request_line.version) \o <<CR, LF>>

\* a header written without the space after the colon
WriteHeaderNoSpace(header) == header.name \o <<":">> \o header.value \o <<CR, LF>>

\* write!(.., "{}: ", name); extend(value); writeln!(.., "\r")
WriteHeader(header) == header.name \o <<":", SP>> \o header.value \o <<CR, LF>>

RECURSIVE WriteHeaders(_)
WriteHeaders(headers) ==
  IF headers = <<>> THEN <<>>
  ELSE WriteHeader(Head(headers)) \o WriteHeaders(Tail(headers))

HeadersBuf(headers) ==
  WriteRequestLine(headers.request_line) \o WriteHeaders(headers.headers) \o <<CR, LF>>

-----------------------------------------------------------------------------
(* Program constants and the bounds of the model.                          *)

\* parse_http_request_headers(&request_buf, 16)
InitialHeaders == 16
\* vec![0; 1 << 16]
BufSize == 65536

\* connections accepted in the concurrent scenario
MaxConns == 2
\* headers of a generated request
MaxHdrs == 2
\* bytes of an opaque client stream
MaxData == 3
\* bytes the upstream sends
MaxUp == 2
\* width of usize in the model
UsizeBits == 4
\* turns of handle_http's read loop that a task counts
MaxReads == 2
\* doublings of the header capacity that the longest request needs
MaxDoublings == 2

UsizeMax == 2 ^ UsizeBits - 1

\* an addition that stays at the maximum
saturating_add(a, b) == IF a + b > UsizeMax THEN UsizeMax ELSE a + b

wrapping_add(a, b) == (a + b) % (2 ^ UsizeBits)

\* opt.hostname, "new.example"
Hostname == <<"n", "e", "w", ".", "e", "x", "a", "m", "p", "l", "e">>
OldHost == <<"o", "l", "d", ".", "e", "x", "a", "m", "p", "l", "e">>

-----------------------------------------------------------------------------
(* The environment: the byte streams a client and the upstream may send.   *)

\* how a client formats a request: empty lines before the request line, the
\* line ending, the whitespace after a colon and after a value
Style(lead, eol, pre, post) == [lead |-> lead, eol |-> eol, pre |-> pre, post |-> post]
Canonical == Style(<<>>, <<CR, LF>>, <<SP>>, <<>>)
NoSpace == Style(<<>>, <<CR, LF>>, <<>>, <<>>)
BareLF == Style(<<>>, <<LF>>, <<SP>>, <<>>)
Loose == Style(<<CR, LF>>, <<CR, LF>>, <<SP, HT>>, <<SP>>)
Styles == {Canonical, NoSpace, BareLF, Loose}

HeaderPool ==
  << Header(<<"H", "o", "s", "t">>, OldHost),
     Header(<<"H", "O", "S", "T">>, <<"o">>),
     Header(<<"X">>, <<"a", SP, "b">>),
     Header(<<"h", "o", "S", "t">>, <<>>),
     Header(<<"H", "o", "s", "t", "x">>, <<"n">>),
     Header(<<"H", "o", "s", "t">>, Hostname) >>

\* the n headers of the pool from the s-th on, cyclically
Window(s, n) == [k \in 1..n |-> HeaderPool[((s + k - 2) % Len(HeaderPool)) + 1]]

HeaderLists(n) == {Window(s, k) : s \in 1..Len(HeaderPool), k \in 0..n}

SeqsUpTo(S, n) == UNION {[1..k -> S] : k \in 0..n}

Request(style, minor, hdrs, tail) ==
  [style |-> style, method |-> <<"G", "E", "T">>, path |-> <<"/">>, minor |-> minor,
   hdrs |-> hdrs, tail |-> tail]

NoRequest == Request(Canonical, 0, <<>>, <<>>)

RECURSIVE RenderHeaders(_, _)
RenderHeaders(hdrs, style) ==
  IF hdrs = <<>> THEN <<>>
  ELSE Head(hdrs).name \o <<":">> \o style.pre \o Head(hdrs).value \o style.post
         \o style.eol \o RenderHeaders(Tail(hdrs), style)

\* the bytes of a request up to and including the blank line
RenderHead(g) ==
  g.style.lead \o g.method \o <<SP>> \o g.path \o <<SP>> \o HTTP1
    \o <<Digits[g.minor + 1]>> \o g.style.eol
    \o RenderHeaders(g.hdrs, g.style) \o g.style.eol

Render(g) == RenderHead(g) \o g.tail

Input(kind, g, data) == [kind |-> kind, g |-> g, data |-> data]

WellFormed(g) == Input("request", g, Render(g))

GET1 == <<"G", "E", "T", SP, "/", SP>> \o HTTP1 \o <<"1">>

\* header blocks the parser rejects: a header line without a colon, an
\* unknown version, a control byte where the method starts
MalformedData ==
  { GET1 \o <<CR, LF, "H", "o", "s", "t", SP, "o", CR, LF, CR, LF>>,
    <<"G", "E", "T", SP, "/", SP, "H", "T", "T", "P", "/", "2", ".", "0", CR, LF, CR, LF>>,
    <<NUL, "a">>,
    GET1 \o <<CR, LF, "H", "o", "s", "t", ":", "o", CR, LF, "X", SP, CR, LF, CR, LF>> }

\* header blocks that never complete
TruncatedData ==
  { <<"G", "E", "T", SP, "/", SP, "H", "T", "T", "P">>,
    GET1 \o <<CR, LF, "H", "o", "s", "t", ":">>,
    <<>> }

Opaque(n) == SeqsUpTo({"a", "b"}, n)

\* requests in every style, and canonical HTTP/1.0 requests followed by
\* two bytes of body
RichRequests ==
  { WellFormed(Request(style, 1, hdrs, <<>>)) :
      style \in Styles, hdrs \in HeaderLists(MaxHdrs) }
  \cup { WellFormed(Request(Canonical, 0, hdrs, <<"b", NUL>>)) :
           hdrs \in HeaderLists(1) }

\* one-byte header names
NameBytes ==
  Digits \o <<"a", "b", "d", "e", "h", "l", "m", "n", "o", "p", "s", "t", "w", "x",
              "E", "G", "H", "O", "P", "S", "T", "X", "-", ".">>

\* the k-th header of a long request: a one-byte name and no value
NumberedHeader(k) == Header(<<NameBytes[((k - 1) % Len(NameBytes)) + 1]>>, <<>>)

\* n headers, the last of them a Host header
ManyHeaders(n) ==
  [k \in 1..n |-> IF k = n THEN Header(<<"H", "o", "s", "t">>, <<"o">>)
                  ELSE NumberedHeader(k)]

\* requests with one header more than the parser's slots after d - 1 doublings
ManyRequests ==
  { WellFormed(Request(NoSpace, 1, ManyHeaders(InitialHeaders * 2 ^ (d - 1) + 1), <<>>)) :
      d \in 1..MaxDoublings }

\* a second request with another Host value, sent on the same connection
SecondRequest == Render(Request(Canonical, 1, <<Header(<<"H", "o", "s", "t">>, <<"o">>)>>, <<>>))

KeepAliveRequests ==
  { WellFormed(Request(Canonical, 1, hdrs, SecondRequest)) :
      hdrs \in {Window(1, 1)} }

SmallRequests ==
  { WellFormed(Request(NoSpace, 1, <<Header(<<"h", "o", "s", "t">>, <<>>)>>, <<>>)) }

Raw(S) == {Input("raw", NoRequest, d) : d \in S}

\* the streams a client may send, by scenario and configuration: the full
\* set of requests is sent to the proxy that rewrites over plain TCP
Inputs(small, o) ==
  IF o.rewrite_host_header
  THEN IF small THEN Raw({<<NUL, "a">>, <<"G">>})
       ELSE IF o.ssl \/ o.ssl_server
       THEN SmallRequests \cup Raw({<<NUL>>, <<"G">>})
       ELSE RichRequests \cup KeepAliveRequests
              \cup Raw(MalformedData) \cup Raw(TruncatedData)
  ELSE IF small THEN Raw(Opaque(1)) ELSE Raw(Opaque(MaxData))

\* the scenario of the long requests: they are sent to the proxy that rewrites
\* over plain TCP
LongInputs(o) ==
  IF o.rewrite_host_header /\ ~o.ssl /\ ~o.ssl_server THEN ManyRequests
  ELSE Inputs(TRUE, o)

Resp(k) == [j \in 1..k |-> IF j % 2 = 1 THEN "y" ELSE "z"]

UpData(small, o) ==
  IF small \/ o.rewrite_host_header THEN {Resp(1)} ELSE {Resp(k) : k \in 0..MaxUp}

\* the upstream of a long request sends nothing
LongUpData(o) ==
  IF o.rewrite_host_header /\ ~o.ssl /\ ~o.ssl_server THEN {Resp(0)}
  ELSE UpData(TRUE, o)

-----------------------------------------------------------------------------
(* State.                                                                  *)
(* opt      the parsed command line (Opt), never changed                   *)
(* i        main's connection counter                                      *)
(* main_pc  "accept" while main awaits listener.accept(), "exited" after   *)
(*          main returned                                                  *)
(* env      the scenario: how many clients connect and what they send      *)
(* conn     the spawned tasks, in the order they were accepted.  Of a task: *)
(*   id, pc            its identifier and the await it is at                *)
(*   inp, csent, ceof  the client's stream, how much of it was sent, and    *)
(*                     whether the client has closed its sending side       *)
(*   udata, usent, ueof   the same for the upstream                         *)
(*   cgot, ugot        bytes the task has read from client and upstream     *)
(*   toUp, toCl        bytes written to the upstream and to the client      *)
(*   request_buf, header_size, headers, headers_changed   handle_http's     *)
(*                     locals; read0: its last read_buf returned 0; reads:  *)
(*                     the turns of its read loop so far, up to MaxReads    *)
(*   wbuf              the bytes of the write_all being awaited             *)
(*   outcome, hread, hwrote   how handle_http ended, and how many bytes it  *)
(*                     had read and written when it returned                *)
(*   broke             the select! branch whose zero-byte read left the loop *)
(*   err, log          the error that ended the task; its log lines         *)

Opts == [ssl : BOOLEAN, ssl_server : BOOLEAN, rewrite_host_header : BOOLEAN,
         hostname : {Hostname}]

\* the task spawned for an accepted socket, at its first await
\* (TcpStream::connect), after "=== Handling connection ===" was printed
NewConn(id, inp, udata) ==
  [id |-> id, pc |-> "connect", inp |-> inp, udata |-> udata,
   csent |-> 0, ceof |-> FALSE, cgot |-> 0,
   usent |-> 0, ueof |-> FALSE, ugot |-> 0,
   request_buf |-> <<>>, read0 |-> FALSE, reads |-> 0, header_size |-> 0, headers |-> NoHeaders,
   headers_changed |-> FALSE, wbuf |-> <<>>,
   toUp |-> <<>>, toCl |-> <<>>,
   outcome |-> "none", hread |-> 0, hwrote |-> 0, broke |-> "", err |-> "",
   log |-> <<[id |-> id, line |-> "Handling"]>>]

Conns == 1..Len(conn)

Running(c) == main_pc = "accept" /\ c \in Conns

Ended(c) == conn[c].pc \in {"done", "error", "panicked"}

\* a panic that takes every task down with it
SetShared(c, r) ==
  conn' = [d \in DOMAIN conn |->
             IF d = c THEN r
             ELSE IF r.pc = "panicked" THEN [conn[d] EXCEPT !.pc = "panicked"]
             ELSE conn[d]]

\* a step of task c changes the state of task c only
Set(c, r) == conn' = [conn EXCEPT ![c] = r]

Same == UNCHANGED <<opt, i, main_pc, env>>

InitWith(os, e) ==
  /\ opt \in os
  /\ i = wrapping_add(UsizeMax, 1)
  /\ main_pc = "accept"
  /\ env = e
  /\ conn = <<>>

\* one client, any configuration
Init == InitWith(Opts, [limit |-> 1, small |-> FALSE, long |-> FALSE])

\* several clients at once, with every option on or every option off
InitConc ==
  InitWith({o \in Opts : o.ssl = o.ssl_server /\ o.ssl = o.rewrite_host_header},
           [limit |-> MaxConns, small |-> TRUE, long |-> FALSE])

\* one client with a short stream, any configuration
InitLive == InitWith(Opts, [limit |-> 1, small |-> TRUE, long |-> FALSE])

\* one client that sends a request with more headers than the parser has slots
InitMany == InitWith(Opts, [limit |-> 1, small |-> TRUE, long |-> TRUE])

-----------------------------------------------------------------------------
(* Steps of one connection task.  A step runs from one await to the next.  *)

LogLine(r, line) == Append(r.log, [id |-> r.id, line |-> line])

\* handle_client returned Err(e): the spawned task prints "[i] Got error"
ReturnErr(r, e) ==
  [r EXCEPT !.pc = "error", !.err = e, !.log = LogLine(r, "GotError"),
            !.request_buf = <<>>, !.headers = NoHeaders, !.wbuf = <<>>,
            !.header_size = 0, !.headers_changed = FALSE, !.read0 = FALSE]

\* .unwrap() on an Err: the task panics; nothing is returned to the task boundary
Panic(r) == [r EXCEPT !.pc = "panicked", !.err = "panic"]

\* the relay loop was left by break in the given select! branch:
\* "=== Done ===" and Ok(())
ReturnOk(r, branch) ==
  [r EXCEPT !.pc = "done", !.broke = branch, !.log = LogLine(r, "Done"),
            !.wbuf = <<>>, !.read0 = FALSE]

\* main.rs:202-208: the interceptor if enabled, then the relay loop
StartHttp(r) ==
  [r EXCEPT !.pc = IF opt.rewrite_host_header THEN "http_read" ELSE "select"]

\* main.rs:193-200: the accepted side, TLS if an acceptor was made
StartIncoming(r) ==
  IF opt.ssl_server THEN [r EXCEPT !.pc = "ssl_accept"] ELSE StartHttp(r)

\* a pipeline that wraps the accepted side before the upstream side
StartOutgoingAcceptFirst(r) ==
  IF opt.ssl_server THEN [r EXCEPT !.pc = "ssl_accept"]
  ELSE IF opt.ssl THEN [r EXCEPT !.pc = "ssl_connect"]
  ELSE StartHttp(r)

\* main.rs:185-191: the upstream side, TLS if opt.ssl
StartOutgoing(r) ==
  IF opt.ssl THEN [r EXCEPT !.pc = "ssl_connect"] ELSE StartIncoming(r)

\* what a read may return: some of the bytes that arrived, 0 at end-of-stream
ReadSizes(avail, eof, cap) ==
  IF avail > 0 THEN 1..(IF avail < cap THEN avail ELSE cap)
  ELSE IF eof THEN {0} ELSE {}

Connect(c) ==
  /\ Running(c) /\ conn[c].pc = "connect"
  /\ Set(c, StartOutgoing(conn[c]))
  /\ Same

ConnectFail(c) ==
  /\ Running(c) /\ conn[c].pc = "connect"
  /\ Set(c, ReturnErr(conn[c], "connect"))
  /\ Same

SslConnect(c) ==
  /\ Running(c) /\ conn[c].pc = "ssl_connect"
  /\ Set(c, StartIncoming(conn[c]))
  /\ Same

\* Pin::new(&mut stream).connect().await.unwrap()
SslConnectFail(c) ==
  /\ Running(c) /\ conn[c].pc = "ssl_connect"
  /\ Set(c, Panic(conn[c]))
  /\ Same

SslAccept(c) ==
  /\ Running(c) /\ conn[c].pc = "ssl_accept"
  /\ Set(c, StartHttp(conn[c]))
  /\ Same

\* Pin::new(&mut stream).accept().await?
SslAcceptFail(c) ==
  /\ Running(c) /\ conn[c].pc = "ssl_accept"
  /\ Set(c, ReturnErr(conn[c], "ssl_accept"))
  /\ Same

\* an interceptor that is run again after it returned
HttpReturnAgain(r, outcome) ==
  [r EXCEPT !.pc = "http_read", !.outcome = outcome, !.hread = r.cgot,
            !.hwrote = Len(r.toUp),
            !.request_buf = <<>>, !.headers = NoHeaders, !.wbuf = <<>>,
            !.header_size = 0, !.headers_changed = FALSE, !.read0 = FALSE]

\* handle_http returned Ok(()): its locals are dropped
HttpReturn(r, outcome) ==
  [r EXCEPT !.pc = "select", !.outcome = outcome, !.hread = r.cgot,
            !.hwrote = Len(r.toUp),
            !.request_buf = <<>>, !.headers = NoHeaders, !.wbuf = <<>>,
            !.header_size = 0, !.headers_changed = FALSE, !.read0 = FALSE]

\* a read that overwrites the buffer instead of appending to it
read_buf_overwrite(r, k) == SubSeq(r.inp.data, r.cgot + 1, r.cgot + k)

\* incoming_stream.read_buf(&mut request_buf) returned k: the next k bytes of
\* the stream are appended to request_buf
read_buf(r, k) == r.request_buf \o SubSeq(r.inp.data, r.cgot + 1, r.cgot + k)

\* an interceptor that forwards what it has while the block is incomplete
IncompleteForwards(got) == [got EXCEPT !.toUp = got.request_buf]

\* Ok(None): nothing is written and the loop reads again
Incomplete(got) == got

\* an interceptor that gives the parse error back to its caller
FailClosed(got) == ReturnErr(got, "parse")

\* Err(e): "Error reading HTTP header", write_all(&request_buf), return Ok(())
FailOpen(got) == [got EXCEPT !.pc = "http_write_err", !.wbuf = got.request_buf]

\* one turn of handle_http's loop after read_buf returned k bytes: the parse
\* of the whole buffer, and on a complete header block the rewrite pass
HttpAfterRead(r, k) ==
  LET buf == read_buf(r, k)
      res == parse_http_request_headers(buf, InitialHeaders)
      got == [r EXCEPT !.request_buf = buf, !.cgot = @ + k, !.read0 = (k = 0),
                       !.reads = Min({@ + 1, MaxReads})]
  IN IF res.res = "None" THEN Incomplete(got)
     ELSE IF res.res = "Err" THEN FailOpen(got)
     ELSE LET changed == HeadersChanged(res.headers.headers)
              headers == [res.headers EXCEPT
                            !.headers = RewriteHeaders(@, opt.hostname)]
          IN [got EXCEPT !.header_size = res.n, !.headers = headers,
                         !.headers_changed = changed,
                         !.pc = IF changed THEN "http_write_headers"
                                ELSE "http_write_all",
                         !.wbuf = IF changed THEN HeadersBuf(headers) ELSE buf]

HttpRead(c) ==
  /\ Running(c) /\ conn[c].pc = "http_read"
  /\ \E k \in ReadSizes(conn[c].csent - conn[c].cgot, conn[c].ceof, BufSize) :
       Set(c, HttpAfterRead(conn[c], k))
  /\ Same

HttpReadFail(c) ==
  /\ Running(c) /\ conn[c].pc = "http_read"
  /\ Set(c, ReturnErr(conn[c], "io"))
  /\ Same

HttpWritePcs == {"http_write_err", "http_write_headers", "http_write_tail", "http_write_all"}

\* a write_all of handle_http completed
HttpAfterWrite(r) ==
  LET w == [r EXCEPT !.toUp = @ \o r.wbuf]
      tail == SubSeq(r.request_buf, r.header_size + 1, Len(r.request_buf))
  IN IF r.pc = "http_write_err" THEN HttpReturn(w, "ParseFailed")
     ELSE IF r.pc = "http_write_all" THEN HttpReturn(w, "PassThrough")
     ELSE IF r.pc = "http_write_headers" /\ tail # <<>>
     THEN [w EXCEPT !.pc = "http_write_tail", !.wbuf = tail]
     ELSE HttpReturn(w, "Rewritten")

HttpWrite(c) ==
  /\ Running(c) /\ conn[c].pc \in HttpWritePcs
  /\ Set(c, HttpAfterWrite(conn[c]))
  /\ Same

\* how many bytes of buf a failing write_all may have written before it failed:
\* none, half of it, or all but the last
PartialWrites(buf) == {0, Len(buf) \div 2, Len(buf) - 1}

\* a write_all failed after k of its bytes were written
HttpWriteFail(c) ==
  /\ Running(c) /\ conn[c].pc \in HttpWritePcs
  /\ \E k \in PartialWrites(conn[c].wbuf) :
       Set(c, ReturnErr([conn[c] EXCEPT !.toUp = @ \o SubSeq(conn[c].wbuf, 1, k)], "io"))
  /\ Same

\* a loop that does not break on a read of zero bytes
RelayAfterReadIncomingNoBreak(r, k) ==
  IF k = 0 THEN r
  ELSE [r EXCEPT !.pc = "write_outgoing", !.cgot = @ + k,
                 !.wbuf = SubSeq(r.inp.data, r.cgot + 1, r.cgot + k)]

\* select! branch incoming_stream.read: n bytes go to write_all on the
\* outgoing stream; n == 0 writes nothing and breaks
RelayAfterReadIncoming(r, k) ==
  IF k = 0 THEN ReturnOk(r, "incoming")
  ELSE [r EXCEPT !.pc = "write_outgoing", !.cgot = @ + k,
                 !.wbuf = SubSeq(r.inp.data, r.cgot + 1, r.cgot + k)]

RelayReadIncoming(c) ==
  /\ Running(c) /\ conn[c].pc = "select"
  /\ \E k \in ReadSizes(conn[c].csent - conn[c].cgot, conn[c].ceof, BufSize) :
       Set(c, RelayAfterReadIncoming(conn[c], k))
  /\ Same

\* select! branch outgoing_stream.read
RelayAfterReadOutgoing(r, k) ==
  IF k = 0 THEN ReturnOk(r, "outgoing")
  ELSE [r EXCEPT !.pc = "write_incoming", !.ugot = @ + k,
                 !.wbuf = SubSeq(r.udata, r.ugot + 1, r.ugot + k)]

\* a pump that reads the upstream while a chunk is written to it, and passes
\* what it read to the client at once
RelayReadOutgoingConcurrent(c) ==
  /\ Running(c) /\ conn[c].pc \in {"select", "write_outgoing"}
  /\ \E k \in ReadSizes(conn[c].usent - conn[c].ugot, conn[c].ueof, BufSize) :
       Set(c, IF conn[c].pc = "select" THEN RelayAfterReadOutgoing(conn[c], k)
              ELSE [conn[c] EXCEPT
                      !.ugot = @ + k,
                      !.toCl = @ \o SubSeq(conn[c].udata, conn[c].ugot + 1,
                                           conn[c].ugot + k)])
  /\ Same

RelayReadOutgoing(c) ==
  /\ Running(c) /\ conn[c].pc = "select"
  /\ \E k \in ReadSizes(conn[c].usent - conn[c].ugot, conn[c].ueof, BufSize) :
       Set(c, RelayAfterReadOutgoing(conn[c], k))
  /\ Same

\* either read of the select! returned Err: n?
RelayReadFail(c) ==
  /\ Running(c) /\ conn[c].pc = "select"
  /\ Set(c, ReturnErr(conn[c], "io"))
  /\ Same

\* a chunk that lands in front of what was written before
RelayAfterWriteReordered(r) ==
  IF r.pc = "write_outgoing"
  THEN [r EXCEPT !.pc = "select", !.toUp = r.wbuf \o @, !.wbuf = <<>>]
  ELSE [r EXCEPT !.pc = "select", !.toCl = r.wbuf \o @, !.wbuf = <<>>]

\* write in place of write_all: only the first byte of the chunk is written
RelayAfterWriteShort(r) ==
  IF r.pc = "write_outgoing"
  THEN [r EXCEPT !.pc = "select", !.toUp = @ \o SubSeq(r.wbuf, 1, 1), !.wbuf = <<>>]
  ELSE [r EXCEPT !.pc = "select", !.toCl = @ \o SubSeq(r.wbuf, 1, 1), !.wbuf = <<>>]

\* a chunk of the upstream that reaches the client twice
RelayAfterWriteTwice(r) ==
  IF r.pc = "write_outgoing"
  THEN [r EXCEPT !.pc = "select", !.toUp = @ \o r.wbuf, !.wbuf = <<>>]
  ELSE [r EXCEPT !.pc = "select", !.toCl = @ \o r.wbuf \o r.wbuf, !.wbuf = <<>>]

\* write_all of the chunk completed: back to select!
RelayAfterWrite(r) ==
  IF r.pc = "write_outgoing"
  THEN [r EXCEPT !.pc = "select", !.toUp = @ \o r.wbuf, !.wbuf = <<>>]
  ELSE [r EXCEPT !.pc = "select", !.toCl = @ \o r.wbuf, !.wbuf = <<>>]

RelayWriteOutgoing(c) ==
  /\ Running(c) /\ conn[c].pc = "write_outgoing"
  /\ Set(c, RelayAfterWrite(conn[c]))
  /\ Same

RelayWriteIncoming(c) ==
  /\ Running(c) /\ conn[c].pc = "write_incoming"
  /\ Set(c, RelayAfterWrite(conn[c]))
  /\ Same

RelayWriteFailed(r, k) ==
  IF r.pc = "write_outgoing"
  THEN ReturnErr([r EXCEPT !.toUp = @ \o SubSeq(r.wbuf, 1, k)], "io")
  ELSE ReturnErr([r EXCEPT !.toCl = @ \o SubSeq(r.wbuf, 1, k)], "io")

RelayWriteFail(c) ==
  /\ Running(c) /\ conn[c].pc \in {"write_outgoing", "write_incoming"}
  /\ \E k \in PartialWrites(conn[c].wbuf) : Set(c, RelayWriteFailed(conn[c], k))
  /\ Same

-----------------------------------------------------------------------------
(* The peers of a connection.                                              *)

\* the client writes its stream to the socket
ClientSend(c) ==
  /\ Running(c) /\ ~Ended(c)
  /\ conn[c].csent < Len(conn[c].inp.data)
  /\ Set(c, [conn[c] EXCEPT !.csent = Len(conn[c].inp.data)])
  /\ Same

\* the client shuts its sending side down
ClientClose(c) ==
  /\ Running(c) /\ ~Ended(c)
  /\ conn[c].csent = Len(conn[c].inp.data) /\ ~conn[c].ceof
  /\ Set(c, [conn[c] EXCEPT !.ceof = TRUE])
  /\ Same

UpstreamSend(c) ==
  /\ Running(c) /\ ~Ended(c) /\ conn[c].pc # "connect"
  /\ conn[c].usent < Len(conn[c].udata)
  /\ Set(c, [conn[c] EXCEPT !.usent = Len(conn[c].udata)])
  /\ Same

UpstreamClose(c) ==
  /\ Running(c) /\ ~Ended(c) /\ conn[c].pc # "connect"
  /\ conn[c].usent = Len(conn[c].udata) /\ ~conn[c].ueof
  /\ Set(c, [conn[c] EXCEPT !.ueof = TRUE])
  /\ Same

-----------------------------------------------------------------------------
(* main's accept loop (main.rs:297-308).                                   *)

\* listener.accept() returned a socket: the task is spawned with the current
\* i, and the loop increments i before it awaits the next accept
Accept ==
  /\ main_pc = "accept" /\ Len(conn) < env.limit
  /\ \E inp \in (IF env.long THEN LongInputs(opt) ELSE Inputs(env.small, opt)),
        udata \in (IF env.long THEN LongUpData(opt) ELSE UpData(env.small, opt)) :
       conn' = Append(conn, NewConn(i, inp, udata))
  /\ i' = wrapping_add(i, 1)
  /\ UNCHANGED <<opt, main_pc, env>>

\* listener.accept().await? returned Err: main returns and the runtime,
\* with every task, is dropped
AcceptFail ==
  /\ main_pc = "accept"
  /\ main_pc' = "exited"
  /\ conn' = <<>>
  /\ UNCHANGED <<opt, i, env>>

Next ==
  \/ Accept
  \/ AcceptFail
  \/ \E c \in Conns : Connect(c)
  \/ \E c \in Conns : ConnectFail(c)
  \/ \E c \in Conns : SslConnect(c)
  \/ \E c \in Conns : SslConnectFail(c)
  \/ \E c \in Conns : SslAccept(c)
  \/ \E c \in Conns : SslAcceptFail(c)
  \/ \E c \in Conns : HttpRead(c)
  \/ \E c \in Conns : HttpReadFail(c)
  \/ \E c \in Conns : HttpWrite(c)
  \/ \E c \in Conns : HttpWriteFail(c)
  \/ \E c \in Conns : RelayReadIncoming(c)
  \/ \E c \in Conns : RelayReadOutgoing(c)
  \/ \E c \in Conns : RelayReadFail(c)
  \/ \E c \in Conns : RelayWriteOutgoing(c)
  \/ \E c \in Conns : RelayWriteIncoming(c)
  \/ \E c \in Conns : RelayWriteFail(c)
  \/ \E c \in Conns : ClientSend(c)
  \/ \E c \in Conns : ClientClose(c)
  \/ \E c \in Conns : UpstreamSend(c)
  \/ \E c \in Conns : UpstreamClose(c)

Spec == Init /\ [][Next]_vars

SpecConc == InitConc /\ [][Next]_vars

SpecMany == InitMany /\ [][Next]_vars

\* the runtime polls a task that can go on: a write_all that can complete
\* does, unless it fails, and select! picks among its ready branches at
\* random, so a branch that is ready again and again is taken
Fairness ==
  \A c \in 1..MaxConns :
    /\ WF_vars(RelayWriteOutgoing(c))
    /\ WF_vars(RelayWriteIncoming(c))
    /\ SF_vars(RelayReadIncoming(c))
    /\ SF_vars(RelayReadOutgoing(c))

SpecLive == InitLive /\ [][Next]_vars /\ Fairness

-----------------------------------------------------------------------------
(* Properties.                                                             *)

IsPrefix(a, b) == Len(a) <= Len(b) /\ a = SubSeq(b, 1, Len(a))

GotErrorLines(r) == {k \in 1..Len(r.log) : r.log[k] = [id |-> r.id, line |-> "GotError"]}

\* C1: in handle_http a read of zero bytes over a header block that is still
\* incomplete ends the connection with an error: no task is ever back at the
\* interceptor's read after such a read
C1_ZeroReadIsFatal ==
  \A c \in Conns : conn[c].read0 => conn[c].pc = "error"

\* C2: when the relay loop ends on a zero-byte read of one side, every byte
\* the other side had sent by then has been read and forwarded
C2_NothingLeftUndelivered ==
  \A c \in Conns :
    conn[c].pc = "done" =>
      /\ conn[c].broke = "incoming" =>
           conn[c].ugot = conn[c].usent /\ Len(conn[c].toCl) = conn[c].usent
      /\ conn[c].broke = "outgoing" => conn[c].cgot = conn[c].csent

\* C3: every failure of a connection (dial, either TLS handshake, I/O in the
\* interceptor or the relay loop) ends the task with an error returned from
\* handle_client and exactly one "[id] Got error" line carrying its own id
C3_FailuresLoggedOnce ==
  \A c \in Conns :
    conn[c].err # "" =>
      conn[c].pc = "error" /\ Cardinality(GotErrorLines(conn[c])) = 1

FailedPcs == {"error", "panicked"}

\* C4: a failure in one task changes no other task and not the accept loop,
\* which stays ready to accept whatever state the tasks are in
C4_FailureIsIsolated ==
  /\ [][\A c \in Conns :
          (c \in DOMAIN conn' /\ conn[c].pc \notin FailedPcs /\ conn'[c].pc \in FailedPcs)
            => /\ \A d \in Conns \ {c} : conn'[d] = conn[d]
               /\ main_pc' = main_pc /\ i' = i]_vars
  /\ [](main_pc = "accept" /\ Len(conn) < env.limit => ENABLED Accept)

C4_Witness ==
  \E c, d \in Conns :
    /\ c # d /\ conn[c].id # conn[d].id
    /\ conn[c].pc \in FailedPcs
    /\ conn[d].pc = "done" /\ conn[d].toUp # <<>>

\* the task is in the relay loop, or left it
RelayPcs == {"select", "write_outgoing", "write_incoming", "done"}
InRelay(r) ==
  \/ r.pc \in RelayPcs
  \/ r.pc = "error" /\ r.err = "io" /\ (opt.rewrite_host_header => r.outcome # "none")

\* what the relay loop read from the client, and what it wrote to the upstream
RelayReadUp(r) == SubSeq(r.inp.data, r.hread + 1, r.cgot)
RelayWroteUp(r) == SubSeq(r.toUp, r.hwrote + 1, Len(r.toUp))
InFlight(r, pc) == IF r.pc = pc THEN r.wbuf ELSE <<>>

\* C5: in the relay loop the bytes written to a side are the bytes read from
\* the other side, in order; a chunk is written whole before the next read
\* (at select! nothing is in flight), and a failed write leaves a prefix
C5_RelayKeepsOrder ==
  \A c \in Conns :
    InRelay(conn[c]) =>
      IF conn[c].pc = "error"
      THEN /\ IsPrefix(RelayWroteUp(conn[c]), RelayReadUp(conn[c]))
           /\ IsPrefix(conn[c].toCl, SubSeq(conn[c].udata, 1, conn[c].ugot))
      ELSE /\ RelayWroteUp(conn[c]) \o InFlight(conn[c], "write_outgoing")
                = RelayReadUp(conn[c])
           /\ conn[c].toCl \o InFlight(conn[c], "write_incoming")
                = SubSeq(conn[c].udata, 1, conn[c].ugot)
           /\ conn[c].pc \in {"select", "done"} => conn[c].wbuf = <<>>

C5_Witness ==
  \E c \in Conns :
    /\ conn[c].pc = "write_outgoing"
    /\ Len(conn[c].toUp) > conn[c].hwrote
    /\ Len(conn[c].toCl) > 1

\* C6: without rewriting, the bytes written to the upstream are always a prefix
\* of the bytes the client sent, and all of them when the loop ends on the
\* client's end-of-stream
C6_UploadIsRelayedWhole ==
  \A c \in Conns :
    ~opt.rewrite_host_header =>
      /\ IsPrefix(conn[c].toUp, SubSeq(conn[c].inp.data, 1, conn[c].csent))
      /\ (conn[c].pc = "done" /\ conn[c].broke = "incoming")
           => conn[c].toUp = conn[c].inp.data

C6_Witness ==
  \E c \in Conns :
    /\ ~opt.rewrite_host_header
    /\ conn[c].pc = "done" /\ conn[c].broke = "incoming"
    /\ Len(conn[c].toUp) > 1

\* a header name that is "host" in any mix of upper and lower case
NameIsHost(name) ==
  /\ Len(name) = 4
  /\ name[1] \in {"h", "H"} /\ name[2] \in {"o", "O"}
  /\ name[3] \in {"s", "S"} /\ name[4] \in {"t", "T"}

HasHost(g) == \E k \in 1..Len(g.hdrs) : NameIsHost(g.hdrs[k].name)

\* the headers of request g as the upstream should see them
ExpectedHeaders(g) ==
  [k \in 1..Len(g.hdrs) |->
     IF NameIsHost(g.hdrs[k].name) THEN Header(g.hdrs[k].name, opt.hostname)
     ELSE g.hdrs[k]]

RECURSIVE ExpectedLines(_)
ExpectedLines(hs) ==
  IF hs = <<>> THEN <<>>
  ELSE hs[1].name \o <<":", SP>> \o hs[1].value \o <<CR, LF>> \o ExpectedLines(Tail(hs))

ExpectedBlock(g) ==
  g.method \o <<SP>> \o g.path \o <<SP, "H", "T", "T", "P", "/", "1", ".">>
    \o <<IF g.minor = 0 THEN "0" ELSE "1">> \o <<CR, LF>>
    \o ExpectedLines(ExpectedHeaders(g)) \o <<CR, LF>>

\* handle_http has returned Ok and the relay loop has read nothing yet
JustReturned(r) == r.pc = "select" /\ r.outcome # "none" /\ r.cgot = r.hread

\* the part of the interceptor's buffer after the header block of request g
BufferedTail(r) == SubSeq(r.inp.data, Len(RenderHead(r.inp.g)) + 1, r.hread)

\* C7: for a request with a Host header the interceptor writes the request
\* line, every header as "Name: Value" in order with the Host values replaced,
\* the blank line, and then the buffered bytes after the header block
C7_RewrittenBlock ==
  \A c \in Conns :
    (conn[c].inp.kind = "request" /\ HasHost(conn[c].inp.g)) =>
      /\ conn[c].outcome \in {"none", "Rewritten"}
      /\ JustReturned(conn[c]) =>
           conn[c].toUp = ExpectedBlock(conn[c].inp.g) \o BufferedTail(conn[c])

\* scenario A, byte for byte
C7_Witness ==
  \E c \in Conns :
    /\ conn[c].inp.data = GET1 \o <<CR, LF, "H", "o", "s", "t", ":", SP>> \o OldHost
                            \o <<CR, LF, CR, LF>>
    /\ JustReturned(conn[c])
    /\ conn[c].toUp = GET1 \o <<CR, LF, "H", "o", "s", "t", ":", SP,
                                "n", "e", "w", ".", "e", "x", "a", "m", "p", "l", "e",
                                CR, LF, CR, LF>>

\* every Host header of g carries the configured hostname already
HostsAlreadySet(g) ==
  /\ HasHost(g)
  /\ \A k \in 1..Len(g.hdrs) :
       NameIsHost(g.hdrs[k].name) => g.hdrs[k].value = opt.hostname

\* C8 as claimed: a request whose Host value is the configured hostname
\* already is forwarded byte for byte, however it is formatted
C8_IdempotentAnyFormat ==
  \A c \in Conns :
    (conn[c].inp.kind = "request" /\ HostsAlreadySet(conn[c].inp.g)
       /\ JustReturned(conn[c]))
      => conn[c].toUp = SubSeq(conn[c].inp.data, 1, conn[c].hread)

\* no empty line before the request line, CRLF line ends, one space after
\* each colon and no whitespace after a value
IsCanonical(style) ==
  style.lead = <<>> /\ style.eol = <<CR, LF>> /\ style.pre = <<SP>> /\ style.post = <<>>

\* C8 amended: a request in the canonical format whose Host value is the
\* configured hostname already is forwarded byte for byte
C8_IdempotentCanonical ==
  \A c \in Conns :
    (conn[c].inp.kind = "request" /\ HostsAlreadySet(conn[c].inp.g)
       /\ IsCanonical(conn[c].inp.g.style) /\ JustReturned(conn[c]))
      => conn[c].toUp = SubSeq(conn[c].inp.data, 1, conn[c].hread)

C8_Witness ==
  \E c \in Conns :
    /\ conn[c].inp.kind = "request" /\ HostsAlreadySet(conn[c].inp.g)
    /\ IsCanonical(conn[c].inp.g.style) /\ Len(conn[c].inp.g.hdrs) > 1
    /\ JustReturned(conn[c]) /\ conn[c].outcome = "Rewritten"
    /\ conn[c].toUp = conn[c].inp.data

\* C9: a request without a Host header is never reserialized: the interceptor
\* writes its whole buffer, header block and bytes after it, unchanged
C9_PassThrough ==
  \A c \in Conns :
    (conn[c].inp.kind = "request" /\ ~HasHost(conn[c].inp.g)) =>
      /\ conn[c].pc \notin {"http_write_headers", "http_write_tail"}
      /\ conn[c].outcome \in {"none", "PassThrough"}
      /\ JustReturned(conn[c]) =>
           conn[c].toUp = SubSeq(conn[c].inp.data, 1, conn[c].hread)

C9_Witness ==
  \E c \in Conns :
    /\ conn[c].inp.kind = "request" /\ ~HasHost(conn[c].inp.g)
    /\ conn[c].inp.g.hdrs # <<>> /\ conn[c].inp.g.tail # <<>>
    /\ JustReturned(conn[c]) /\ conn[c].hread = Len(conn[c].inp.data)
    /\ conn[c].toUp = conn[c].inp.data

\* handle_http holds the parsed headers after its rewrite pass
AfterRewritePass(r) == r.pc \in {"http_write_headers", "http_write_tail", "http_write_all"}

\* C10: the rewrite pass gives every header named host, in any case, the
\* configured hostname and leaves every other value, every name and the
\* order of the headers as they were
C10_RewritePass ==
  \A c \in Conns :
    (conn[c].inp.kind = "request" /\ AfterRewritePass(conn[c])) =>
      /\ conn[c].headers.headers = ExpectedHeaders(conn[c].inp.g)
      /\ conn[c].headers_changed = HasHost(conn[c].inp.g)

C10_Witness ==
  \E c \in Conns :
    /\ AfterRewritePass(conn[c])
    /\ conn[c].inp.g.hdrs = << Header(<<"H", "O", "S", "T">>, <<"o">>),
                               Header(<<"X">>, <<"a", SP, "b">>) >>
    /\ conn[c].headers.headers = << Header(<<"H", "O", "S", "T">>, opt.hostname),
                                    Header(<<"X">>, <<"a", SP, "b">>) >>

\* the client's stream is one of the header blocks the parser rejects
Malformed(r) == r.inp.kind = "raw" /\ r.inp.data \in MalformedData \cup {<<NUL>>}

\* the failures that end a task: the dial, a handshake, a read or a write
IoErrors == {"connect", "ssl_accept", "io", "panic"}

\* C11: on a header block the parser rejects the interceptor attempts no
\* rewrite, writes its whole buffer unchanged to the upstream and returns Ok,
\* so that the task goes on into the relay loop; a task that ends in error
\* ended on a dial, handshake or I/O failure, never on the parse error
C11_FailOpen ==
  \A c \in Conns :
    /\ conn[c].err # "" => conn[c].err \in IoErrors
    /\ Malformed(conn[c]) =>
         /\ conn[c].pc \notin {"http_write_headers", "http_write_tail", "http_write_all"}
         /\ ~conn[c].headers_changed
         /\ conn[c].outcome \in {"none", "ParseFailed"}
         /\ conn[c].pc = "http_write_err" =>
              /\ conn[c].wbuf = SubSeq(conn[c].inp.data, 1, conn[c].cgot)
              /\ conn[c].toUp = <<>>
         /\ JustReturned(conn[c]) =>
              conn[c].toUp = SubSeq(conn[c].inp.data, 1, conn[c].hread)
         /\ conn[c].pc = "done" /\ conn[c].broke = "incoming" =>
              conn[c].toUp = conn[c].inp.data

\* a valid Host line followed by a line without a colon: all of it reaches the
\* upstream as it was sent and the connection ends normally
C11_Witness ==
  \E c \in Conns :
    /\ Malformed(conn[c]) /\ Len(conn[c].inp.data) > 20
    /\ conn[c].outcome = "ParseFailed" /\ conn[c].hread < Len(conn[c].inp.data)
    /\ conn[c].pc = "done" /\ conn[c].broke = "incoming"
    /\ conn[c].toUp = conn[c].inp.data

\* the parse of the whole stream, as if it had arrived in a single read
OneShot(data) == parse_http_request_headers(data, InitialHeaders)

\* what the upstream is sent in all when the whole stream arrives in a single
\* read: the stream itself after a parse error or without a Host header, the
\* rewritten block and the bytes after it with one, nothing while the block
\* is incomplete
Delivered(data) ==
  LET one == OneShot(data)
  IN IF one.res = "Err" THEN data
     ELSE IF one.res = "None" THEN <<>>
     ELSE IF HeadersChanged(one.headers.headers)
     THEN HeadersBuf([one.headers EXCEPT !.headers = RewriteHeaders(@, opt.hostname)])
            \o SubSeq(data, one.n + 1, Len(data))
     ELSE data

\* C12: however the reads split the client's stream, the interceptor ends as
\* it would on the whole stream in a single read (the same parse failure, or
\* the same header boundary, request line and header list), and what reaches
\* the upstream from the interceptor and the relay loop together is a prefix
\* of, and at the client's end-of-stream all of, what a single read delivers
C12_SplitReadsAgree ==
  \A c \in Conns :
    opt.rewrite_host_header =>
      LET r == conn[c]
          one == OneShot(r.inp.data)
      IN /\ IsPrefix(r.toUp, Delivered(r.inp.data))
         /\ (r.pc = "done" /\ r.broke = "incoming") => r.toUp = Delivered(r.inp.data)
         /\ (r.pc = "http_write_err" \/ r.outcome = "ParseFailed") => one.res = "Err"
         /\ r.outcome \in {"Rewritten", "PassThrough"} => one.res = "Some"
         /\ AfterRewritePass(r) =>
              /\ one.res = "Some"
              /\ r.header_size = one.n
              /\ r.headers.request_line = one.headers.request_line
              /\ r.headers.headers = RewriteHeaders(one.headers.headers, opt.hostname)
         /\ (r.pc = "http_read" /\ r.cgot = Len(r.inp.data)) => one.res = "None"

\* a header block that took more than one read to complete, and a stream
\* that was not read whole by the interceptor
C12_Witness ==
  \E c \in Conns :
    /\ conn[c].reads >= 2 /\ conn[c].outcome = "Rewritten"
    /\ conn[c].hread < Len(conn[c].inp.data)
    /\ conn[c].pc = "done" /\ conn[c].broke = "incoming"
    /\ conn[c].toUp = Delivered(conn[c].inp.data)
    /\ conn[c].toUp # conn[c].inp.data

\* the request has more headers than the parser is first given slots for
LongRequest(r) == r.inp.kind = "request" /\ Len(r.inp.g.hdrs) > InitialHeaders

\* C13: a request with more than 16 headers is parsed with success: the
\* doubling of the capacity ends, no TooManyHeaders error comes out of it, and
\* the header list holds the request's headers, all of them, in their order,
\* without an empty entry
C13_CapacityDoubling ==
  \A c \in Conns :
    LongRequest(conn[c]) =>
      LET one == OneShot(conn[c].inp.data)
      IN /\ one.res = "Some" /\ one.n = Len(conn[c].inp.data)
         /\ one.headers.headers = conn[c].inp.g.hdrs
         /\ \A k \in 1..Len(one.headers.headers) : one.headers.headers[k] # EMPTY_HEADER
         /\ conn[c].pc # "http_write_err" /\ conn[c].outcome # "ParseFailed"
         /\ AfterRewritePass(conn[c]) =>
              /\ Len(conn[c].headers.headers) = Len(conn[c].inp.g.hdrs)
              /\ conn[c].headers.headers = ExpectedHeaders(conn[c].inp.g)

\* a request that needs two doublings, parsed and rewritten
C13_Witness ==
  \E c \in Conns :
    /\ Len(conn[c].inp.g.hdrs) > 2 * InitialHeaders
    /\ conn[c].reads >= 2
    /\ conn[c].outcome = "Rewritten"
    /\ conn[c].toUp = ExpectedBlock(conn[c].inp.g)

HttpPcs == {"http_read"} \cup HttpWritePcs

\* the length of the first header block of the client's stream; a stream the
\* parser rejects has none
FirstBlock(r) == IF r.inp.kind = "request" THEN Len(RenderHead(r.inp.g)) ELSE 0

\* the bytes at the upstream after what the interceptor wrote for the first
\* header block
AfterBlock(r) ==
  SubSeq(r.toUp, r.hwrote - (r.hread - FirstBlock(r)) + 1, Len(r.toUp))

\* C14: the interceptor never runs when rewriting is off and never again once
\* it has returned; from then on the upstream gets every client byte after
\* the first header block as the client sent it, whether the interceptor had
\* it in its buffer or the relay loop read it later
C14_OneRewritePass ==
  \A c \in Conns :
    LET r == conn[c]
        rest == SubSeq(r.inp.data, FirstBlock(r) + 1, r.cgot)
    IN /\ ~opt.rewrite_host_header =>
            r.outcome = "none" /\ r.pc \notin HttpPcs /\ r.reads = 0
       /\ r.outcome # "none" =>
            /\ r.pc \notin HttpPcs
            /\ r.request_buf = <<>> /\ ~r.headers_changed
            /\ IF r.pc = "error" THEN IsPrefix(AfterBlock(r), rest)
               ELSE AfterBlock(r) \o InFlight(r, "write_outgoing") = rest

\* a second request with another Host value, part of it read by the
\* interceptor with the first and the rest by the relay loop, reaches the
\* upstream with its own Host value behind the rewritten first request
C14_Witness ==
  \E c \in Conns :
    /\ conn[c].inp.kind = "request" /\ conn[c].inp.g.tail = SecondRequest
    /\ conn[c].outcome = "Rewritten"
    /\ FirstBlock(conn[c]) < conn[c].hread /\ conn[c].hread < Len(conn[c].inp.data)
    /\ conn[c].pc = "done" /\ conn[c].broke = "incoming"
    /\ conn[c].toUp = ExpectedBlock(conn[c].inp.g) \o SecondRequest

\* C15: with rewriting on, nothing is written to either side while the
\* interceptor accumulates: at its read the upstream has got no byte, before
\* it has ended no byte of the upstream was read or passed to the client, and
\* a failure of its read ends the task with nothing forwarded
C15_NothingCrossesEarly ==
  /\ [](\A c \in Conns :
          opt.rewrite_host_header =>
            /\ conn[c].pc = "http_read" => conn[c].toUp = <<>>
            /\ conn[c].outcome = "none" => conn[c].toCl = <<>> /\ conn[c].ugot = 0)
  /\ [][\A c \in Conns :
          (c \in DOMAIN conn' /\ conn[c].pc = "http_read" /\ conn'[c].pc = "error")
            => conn'[c].toUp = <<>> /\ conn'[c].toCl = <<>>]_vars

\* the read fails over a block that was read whole and is still incomplete,
\* with bytes of the upstream waiting
C15_Witness ==
  \E c \in Conns :
    /\ opt.rewrite_host_header
    /\ conn[c].inp.data \in TruncatedData
    /\ conn[c].cgot = Len(conn[c].inp.data) /\ conn[c].cgot > 0
    /\ conn[c].usent > 0
    /\ conn[c].pc = "error" /\ conn[c].err = "io"
    /\ conn[c].toUp = <<>> /\ conn[c].toCl = <<>>

\* a side has closed and the task has read all it sent: its next read returns 0
EofIncoming(r) == r.ceof /\ r.cgot = r.csent
EofOutgoing(r) == r.ueof /\ r.ugot = r.usent

\* the task is in the relay loop and a side is at end-of-stream
RelayAtEof(c) ==
  /\ c \in Conns
  /\ conn[c].pc \in {"select", "write_outgoing", "write_incoming"}
  /\ (EofIncoming(conn[c]) \/ EofOutgoing(conn[c]))

\* the task printed "=== Done ===" and returned Ok
EndedDone(c) ==
  /\ c \in Conns /\ conn[c].pc = "done"
  /\ conn[c].log[Len(conn[c].log)] = [id |-> conn[c].id, line |-> "Done"]

\* the task or the whole process was ended by a failure
EndedByFailure(c) ==
  main_pc = "exited" \/ (c \in Conns /\ conn[c].pc \in FailedPcs)

\* C16: once a side is at end-of-stream in the relay phase the loop gets to
\* read the zero bytes and the task ends with "=== Done ===", unless a
\* failure ends it first; a task that has ended so reads and writes no more
C16_RelayEndsAtEof ==
  /\ \A c \in 1..MaxConns : RelayAtEof(c) ~> (EndedDone(c) \/ EndedByFailure(c))
  /\ [][\A c \in Conns :
          (c \in DOMAIN conn' /\ conn[c].pc = "done") =>
            /\ conn'[c].pc = "done"
            /\ conn'[c].cgot = conn[c].cgot /\ conn'[c].ugot = conn[c].ugot
            /\ conn'[c].toUp = conn[c].toUp /\ conn'[c].toCl = conn[c].toCl]_vars

\* the loop ended on the upstream's end-of-stream while a byte of the client
\* was waiting to be read
C16_Witness ==
  \E c \in Conns :
    /\ EndedDone(c) /\ conn[c].broke = "outgoing"
    /\ conn[c].csent > conn[c].cgot
    /\ conn[c].toCl = conn[c].udata /\ conn[c].udata # <<>>

\* the step of the pipeline a task is at: 1 the dial, 2 the handshake with
\* the upstream, 3 the handshake with the client, 4 the interceptor, 5 the
\* relay loop, 6 ended
Stage(pc) ==
  CASE pc = "connect" -> 1
    [] pc = "ssl_connect" -> 2
    [] pc = "ssl_accept" -> 3
    [] pc \in HttpPcs -> 4
    [] pc \in {"select", "write_outgoing", "write_incoming"} -> 5
    [] OTHER -> 6

\* the configuration has the step
StageRuns(s) ==
  /\ s = 2 => opt.ssl
  /\ s = 3 => opt.ssl_server
  /\ s = 4 => opt.rewrite_host_header

\* the step that follows step s < 5 in this configuration
NextStage(s) == Min({t \in (s + 1)..5 : StageRuns(t)})

\* C17: a task goes through dial, upstream handshake, client handshake,
\* interceptor and relay loop in this order, each step the configuration has
\* and no other; a failure ends it at the step it is at and an ended task does
\* nothing more; before both handshakes are done, and after a failed dial, no
\* byte was read from or written to either side
C17_PipelineOrder ==
  /\ [](\A c \in Conns :
          /\ Stage(conn[c].pc) < 6 => StageRuns(Stage(conn[c].pc))
          /\ (Stage(conn[c].pc) <= 3 \/ conn[c].err \in {"connect", "ssl_accept", "panic"}) =>
               /\ conn[c].cgot = 0 /\ conn[c].ugot = 0
               /\ conn[c].toUp = <<>> /\ conn[c].toCl = <<>>)
  /\ [][\A c \in Conns :
          c \in DOMAIN conn' =>
            LET a == Stage(conn[c].pc)
                b == Stage(conn'[c].pc)
            IN /\ a = 6 => conn'[c] = conn[c]
               /\ a < 5 => b \in {a, NextStage(a), 6}
               /\ a = 5 => b \in {5, 6}
               /\ (a < 5 /\ b = 6) => conn'[c].pc \in FailedPcs]_vars

\* the dial fails for a client of the TLS-terminating proxy that has sent
\* its first bytes: the task ends with none of them read
C17_Witness ==
  \E c \in Conns :
    /\ opt.ssl /\ opt.ssl_server /\ opt.rewrite_host_header
    /\ conn[c].pc = "error" /\ conn[c].err = "connect"
    /\ conn[c].csent > 0 /\ conn[c].cgot = 0
    /\ conn[c].toCl = <<>> /\ conn[c].toUp = <<>>

\* C18: the first accepted connection has the identifier 0 (the counter
\* starts at the maximum and wraps to 0), each next one the identifier of the
\* one before plus one modulo 2^w, so that connections less than 2^w accepts
\* apart differ in it; the counter is one ahead of the last identifier given;
\* a task's identifier never changes and is on each of its log lines
C18_Identifiers ==
  /\ [](/\ \A a \in 0..UsizeMax :
             /\ wrapping_add(a, 1) = (a + 1) % (2 ^ UsizeBits)
             /\ \A n \in 1..UsizeMax : (a + n) % (2 ^ UsizeBits) # a
         /\ wrapping_add(UsizeMax, 1) = 0
         /\ \A c \in Conns :
              /\ conn[c].id = (c - 1) % (2 ^ UsizeBits)
              /\ c > 1 => conn[c].id = (conn[c - 1].id + 1) % (2 ^ UsizeBits)
              /\ \A d \in Conns :
                   (c # d /\ c - d < 2 ^ UsizeBits /\ d - c < 2 ^ UsizeBits)
                     => conn[c].id # conn[d].id
              /\ \A k \in 1..Len(conn[c].log) : conn[c].log[k].id = conn[c].id
         /\ main_pc = "accept" => i = Len(conn) % (2 ^ UsizeBits))
  /\ [][\A c \in Conns : c \in DOMAIN conn' => conn'[c].id = conn[c].id]_vars

\* two connections with the identifiers 0 and 1, ended with their own
\* identifiers on their last lines, and the counter at 2
C18_Witness ==
  /\ Len(conn) = 2 /\ i = 2
  /\ conn[1].id = 0 /\ conn[1].pc = "error"
  /\ conn[1].log[Len(conn[1].log)] = [id |-> 0, line |-> "GotError"]
  /\ conn[2].id = 1 /\ conn[2].pc = "done"
  /\ conn[2].log[Len(conn[2].log)] = [id |-> 1, line |-> "Done"]

WritePcs == {"write_outgoing", "write_incoming"}

\* a read of the side would return if the task issued one
ReadyIncoming(r) == r.csent > r.cgot \/ r.ceof
ReadyOutgoing(r) == r.usent > r.ugot \/ r.ueof

\* C19: the relay loop holds one chunk at most: a chunk is held exactly while
\* its write_all is awaited, and while it is awaited the task reads from
\* neither side, whatever is waiting there; the reads of the other tasks
\* are not held up by it
C19_OneChunkInFlight ==
  /\ [](\A c \in Conns :
          /\ conn[c].pc = "select" => conn[c].wbuf = <<>>
          /\ conn[c].pc \in WritePcs =>
               /\ conn[c].wbuf # <<>>
               /\ ~ENABLED RelayReadIncoming(c)
               /\ ~ENABLED RelayReadOutgoing(c)
               /\ \A d \in Conns \ {c} :
                    conn[d].pc = "select" =>
                      /\ ReadyIncoming(conn[d]) => ENABLED RelayReadIncoming(d)
                      /\ ReadyOutgoing(conn[d]) => ENABLED RelayReadOutgoing(d))
  /\ [][\A c \in Conns :
          (c \in DOMAIN conn' /\ conn[c].pc \in WritePcs) =>
            conn'[c].cgot = conn[c].cgot /\ conn'[c].ugot = conn[c].ugot]_vars

\* a task awaits its write to the upstream while a byte of the upstream waits
\* unread, and another task is at select! with a byte to read
C19_Witness ==
  \E c, d \in Conns :
    /\ c # d
    /\ conn[c].pc = "write_outgoing" /\ conn[c].usent > conn[c].ugot
    /\ conn[d].pc = "select" /\ conn[d].usent > conn[d].ugot
    /\ conn[d].toUp # <<>>

\* C20: in every configuration and whatever the interceptor did, the bytes
\* written to the client are a prefix of the bytes read from the upstream,
\* which are a prefix of what the upstream sent; the interceptor reads and
\* writes nothing in this direction
C20_DownloadUnaltered ==
  \A c \in Conns :
    /\ IsPrefix(conn[c].toCl, SubSeq(conn[c].udata, 1, conn[c].ugot))
    /\ conn[c].ugot <= conn[c].usent
    /\ conn[c].pc \in HttpPcs => conn[c].toCl = <<>> /\ conn[c].ugot = 0
    /\ conn[c].pc \in {"select", "write_outgoing", "done"} =>
         conn[c].toCl = SubSeq(conn[c].udata, 1, conn[c].ugot)

\* the reply to a request whose Host header was rewritten reaches the client
\* as the upstream sent it
C20_Witness ==
  \E c \in Conns :
    /\ opt.rewrite_host_header /\ conn[c].outcome = "Rewritten"
    /\ conn[c].toUp # conn[c].inp.data
    /\ conn[c].udata # <<>> /\ conn[c].toCl = conn[c].udata
    /\ conn[c].pc = "done"

=============================================================================
